---- MODULE Spec2Model ----
(***************************************************************************)
(* Model of the Bedrock pricing calculator (src/app(1).py): the token      *)
(* estimators, the cost arithmetic, and the two HTTP handlers POST         *)
(* /api/calc and GET /health.                                              *)
(*                                                                         *)
(* Representation.                                                         *)
(*   - A Python str is a sequence of code points, a bytes object a         *)
(*     sequence of integers 0..255.                                        *)
(*   - A Python value of unknown type (what JSON can deliver) is a record  *)
(*     with a field t naming its type.                                     *)
(*   - A call either returns or raises: Return(v) / Raise(type, message).  *)
(*   - Money is fixed point in units of 10^-7 currency units.  Every exact *)
(*     intermediate value of calculate_cost is a multiple of 10^-6, so the *)
(*     grid holds them all, and round(x, 6) and round(x, 4) are genuine    *)
(*     roundings on it (to multiples of 10 and of 1000).  The doubles the  *)
(*     program computes with differ from these exact values by far less    *)
(*     than half a unit of the last rounded digit.                         *)
(***************************************************************************)
EXTENDS Integers, Sequences, FiniteSets, TLC

VARIABLES
    SONNET_4,          \* module global: the pricing record
    REQUESTS_PER_DAY,  \* module global: requests per day of the projections
    call,              \* the function call or HTTP request being made
    ret,               \* what the call returned, NotYet before it ran
    first              \* the first POST /api/calc served and its response

vars == <<SONNET_4, REQUESTS_PER_DAY, call, ret, first>>

----------------------------------------------------------------------------
(* Bounds of the model *)

MaxTextLen == 8        \* longest text handed to estimate_text_tokens
MaxInputTokens == 10000 \* largest argument of estimate_output_tokens
MaxCostIn == 40        \* largest input_tokens handed to calculate_cost
MaxCostOut == 55       \* largest output_tokens handed to calculate_cost
MaxChunks == 3         \* pieces a single uploaded file's content is made of
MaxFiles == 2          \* files of one process_files call / one request

----------------------------------------------------------------------------
(* Python values *)

PyStr(s) == [t |-> "str", s |-> s]
PyNone == [t |-> "NoneType"]
PyInt(n) == [t |-> "int", n |-> n]
PyBool(b) == [t |-> "bool", n |-> IF b THEN 1 ELSE 0]
PyList(n) == [t |-> "list", n |-> n]
PyDict(n) == [t |-> "dict", n |-> n]

\* bool(v): empty str, None, 0, False, [] and {} are falsy
Truthy(v) ==
    CASE v.t = "str" -> v.s # <<>>
      [] v.t = "NoneType" -> FALSE
      [] OTHER -> v.n # 0

Return(v) == [raised |-> FALSE, value |-> v]
Raise(type, msg) == [raised |-> TRUE, type |-> type, msg |-> msg]

NoAttribute(v, attr) ==
    Raise("AttributeError", "'" \o v.t \o "' object has no attribute '" \o attr \o "'")

Max(a, b) == IF a >= b THEN a ELSE b
Min(a, b) == IF a <= b THEN a ELSE b

----------------------------------------------------------------------------
(* str.strip(): removes leading and trailing whitespace, where whitespace  *)
(* is what str.isspace() accepts.                                          *)

IsSpace(c) ==
    c \in ({9, 10, 11, 12, 13, 28, 29, 30, 31, 32, 133, 160, 5760,
            8232, 8233, 8239, 8287, 12288} \cup (8192..8202))

RECURSIVE LStrip(_)
LStrip(s) == IF s # <<>> /\ IsSpace(Head(s)) THEN LStrip(Tail(s)) ELSE s

RECURSIVE RStrip(_)
RStrip(s) ==
    IF s # <<>> /\ IsSpace(s[Len(s)]) THEN RStrip(SubSeq(s, 1, Len(s) - 1)) ELSE s

\* lstrip() in place of strip()
StripLeftOnly(s) == LStrip(s)

Strip(s) == RStrip(LStrip(s))

----------------------------------------------------------------------------
(* estimate_text_tokens, estimate_output_tokens *)

estimate_text_tokens(text) ==
    IF ~Truthy(text) THEN Return(0)
    ELSE IF text.t # "str" THEN NoAttribute(text, "strip")
    ELSE Return(Max(1, Len(Strip(text.s)) \div 4))

\* the product rounded to the nearest integer instead of truncated
RoundedSixtyPercent(input_tokens) == (input_tokens * 6 + 5) \div 10

\* int(input_tokens * 0.6): the product is a float, int() truncates it toward
\* zero.  For 0 <= input_tokens <= 200000 the double product truncates to
\* (3 * input_tokens) div 5 (the double nearest 0.6 times a multiple of 5
\* rounds to the integer itself).
TruncatedSixtyPercent(input_tokens) == (input_tokens * 6) \div 10

OUTPUT_MIN == 50
OUTPUT_MAX == 4000

\* the lower clamp forgotten
estimate_output_tokens_no_minimum(input_tokens) ==
    Min(TruncatedSixtyPercent(input_tokens), OUTPUT_MAX)

\* max(50, min(estimated, 4000))
estimate_output_tokens(input_tokens) ==
    LET estimated == TruncatedSixtyPercent(input_tokens)
    IN  Max(OUTPUT_MIN, Min(estimated, OUTPUT_MAX))

----------------------------------------------------------------------------
(* calculate_cost *)

\* round(x, ndigits) on the 10^-7 grid: to the nearest multiple of step,
\* ties to the even multiple (Python's round)
RoundTo(x, step) ==
    LET q == x \div step
        r == x % step
    IN  IF 2 * r < step THEN q * step
        ELSE IF 2 * r > step THEN (q + 1) * step
        ELSE IF q % 2 = 0 THEN q * step
        ELSE (q + 1) * step

Round6(x) == RoundTo(x, 10)
Round4(x) == RoundTo(x, 1000)

\* the per-request figures rounded to 4 decimals like the projections
calculate_cost_all_round4(input_tokens, output_tokens) ==
    LET input_cost == (input_tokens * SONNET_4.input_price_per_1k) \div 1000
        output_cost == (output_tokens * SONNET_4.output_price_per_1k) \div 1000
        total_cost == input_cost + output_cost
        daily_cost == total_cost * REQUESTS_PER_DAY
    IN  [input |-> Round4(input_cost),
         output |-> Round4(output_cost),
         total_per_request |-> Round4(total_cost),
         weekly_estimate |-> Round4(daily_cost * 7),
         monthly_estimate |-> Round4(daily_cost * 30)]

\* (tokens / 1000) * price: the prices are multiples of 10^-6 per 1000
\* tokens, so the division by 1000 is exact on the grid
calculate_cost(input_tokens, output_tokens) ==
    LET input_cost == (input_tokens * SONNET_4.input_price_per_1k) \div 1000
        output_cost == (output_tokens * SONNET_4.output_price_per_1k) \div 1000
        total_cost == input_cost + output_cost
        daily_cost == total_cost * REQUESTS_PER_DAY
        weekly_cost == daily_cost * 7
        monthly_cost == daily_cost * 30
    IN  [input |-> Round6(input_cost),
         output |-> Round6(output_cost),
         total_per_request |-> Round6(total_cost),
         weekly_estimate |-> Round4(weekly_cost),
         monthly_estimate |-> Round4(monthly_cost)]

----------------------------------------------------------------------------
(* werkzeug.utils.secure_filename, as called on line 55, and str.lower()   *)

\* unicodedata.normalize("NFKD", c).encode("ascii", "ignore"): an ASCII
\* code point stays, e-acute (233) decomposes to e plus a combining accent
\* that is dropped, the other non-ASCII code points used here are dropped
AsciiFold(c) == IF c < 128 THEN <<c>> ELSE IF c = 233 THEN <<101>> ELSE <<>>

RECURSIVE ToAscii(_)
ToAscii(s) == IF s = <<>> THEN <<>> ELSE AsciiFold(Head(s)) \o ToAscii(Tail(s))

\* filename.replace(os.sep, " ")
RECURSIVE ReplaceSeparators(_)
ReplaceSeparators(s) ==
    IF s = <<>> THEN <<>>
    ELSE <<IF Head(s) = 47 THEN 32 ELSE Head(s)>> \o ReplaceSeparators(Tail(s))

\* "_".join(s.split()) of a string without leading or trailing whitespace
RECURSIVE JoinFrom(_)
JoinFrom(s) ==
    IF s = <<>> THEN <<>>
    ELSE IF IsSpace(Head(s)) THEN <<95>> \o JoinFrom(LStrip(s))
    ELSE <<Head(s)>> \o JoinFrom(Tail(s))

JoinWords(s) == JoinFrom(Strip(s))

\* [A-Za-z0-9_.-]
IsFilenameChar(c) == c \in (48..57) \cup (65..90) \cup (97..122) \cup {95, 46, 45}

IsDotOrUnderscore(c) == c \in {46, 95}

\* str.strip("._")
RECURSIVE StripDots(_)
StripDots(s) ==
    IF s # <<>> /\ IsDotOrUnderscore(Head(s)) THEN StripDots(Tail(s))
    ELSE IF s # <<>> /\ IsDotOrUnderscore(s[Len(s)]) THEN StripDots(SubSeq(s, 1, Len(s) - 1))
    ELSE s

secure_filename(filename) ==
    StripDots(SelectSeq(JoinWords(ReplaceSeparators(ToAscii(filename))), IsFilenameChar))

\* str.lower() of an ASCII string
RECURSIVE Lower(_)
Lower(s) ==
    IF s = <<>> THEN <<>>
    ELSE <<IF Head(s) \in 65..90 THEN Head(s) + 32 ELSE Head(s)>> \o Lower(Tail(s))

EndsWith(s, suffix) ==
    /\ Len(s) >= Len(suffix)
    /\ SubSeq(s, Len(s) - Len(suffix) + 1, Len(s)) = suffix

\* ['.jpg', '.jpeg', '.png', '.gif', '.webp']
IMAGE_EXTENSIONS ==
    { <<46, 106, 112, 103>>, <<46, 106, 112, 101, 103>>, <<46, 112, 110, 103>>,
      <<46, 103, 105, 102>>, <<46, 119, 101, 98, 112>> }
PDF_EXTENSION == <<46, 112, 100, 102>>      \* '.pdf'
TXT_EXTENSION == <<46, 116, 120, 116>>      \* '.txt'
PAGE_MARKER == <<47, 80, 97, 103, 101>>     \* b'/Page'

----------------------------------------------------------------------------
(* bytes.count, bytes.decode('utf-8'), count_pdf_pages *)

\* bytes.count(pattern): occurrences found scanning left to right, the scan
\* resuming after each occurrence
RECURSIVE Count(_, _)
Count(content, pattern) ==
    IF Len(content) < Len(pattern) THEN 0
    ELSE IF SubSeq(content, 1, Len(pattern)) = pattern
         THEN 1 + Count(SubSeq(content, Len(pattern) + 1, Len(content)), pattern)
         ELSE Count(Tail(content), pattern)

IsContinuation(b) == b \in 128..191

\* The number of bytes of the well-formed UTF-8 sequence content starts
\* with, 0 when it starts with none (strict decoding: no overlong forms, no
\* surrogates, nothing above U+10FFFF).
SequenceLength(content) ==
    LET n == Len(content)
        b1 == content[1]
        Cont(i) == n >= i /\ IsContinuation(content[i])
    IN  IF b1 < 128 THEN 1
        ELSE IF b1 \in 194..223 /\ Cont(2) THEN 2
        ELSE IF b1 \in 224..239 /\ Cont(2) /\ Cont(3)
                /\ (b1 = 224 => content[2] >= 160)
                /\ (b1 = 237 => content[2] <= 159) THEN 3
        ELSE IF b1 \in 240..244 /\ Cont(2) /\ Cont(3) /\ Cont(4)
                /\ (b1 = 240 => content[2] >= 144)
                /\ (b1 = 244 => content[2] <= 143) THEN 4
        ELSE 0

CodePoint(content, k) ==
    CASE k = 1 -> content[1]
      [] k = 2 -> (content[1] - 192) * 64 + (content[2] - 128)
      [] k = 3 -> (content[1] - 224) * 4096 + (content[2] - 128) * 64 + (content[3] - 128)
      [] k = 4 -> (content[1] - 240) * 262144 + (content[2] - 128) * 4096
                  + (content[3] - 128) * 64 + (content[4] - 128)

RECURSIVE Utf8Decode(_)
Utf8Decode(content) ==
    IF content = <<>> THEN Return(<<>>)
    ELSE LET k == SequenceLength(content)
         IN  IF k = 0 THEN Raise("UnicodeDecodeError", "'utf-8' codec can't decode byte")
             ELSE LET rest == Utf8Decode(SubSeq(content, k + 1, Len(content)))
                  IN  IF rest.raised THEN rest
                      ELSE Return(<<CodePoint(content, k)>> \o rest.value)

\* without the max(1, ...)
count_pdf_pages_no_minimum(file_content) == Count(file_content, PAGE_MARKER)

\* file_content is always a bytes object, whose count() cannot fail: the
\* except branch is never taken
count_pdf_pages(file_content) ==
    LET pages == Count(file_content, PAGE_MARKER)
    IN  Max(1, pages)

----------------------------------------------------------------------------
(* process_files *)

IMAGE_TOKENS == 1600
TOKENS_PER_PAGE == 500

ZeroBreakdown == [text_tokens |-> 0, image_tokens |-> 0, document_tokens |-> 0]

\* One iteration of the loop over files: the totals after the file, or the
\* exception its read() raised.
ProcessFile(file, totals) ==
    IF ~file.readable THEN Raise("OSError", "cannot read upload")
    ELSE
    LET filename == Lower(secure_filename(file.filename))
        content == file.content
    IN  IF \E ext \in IMAGE_EXTENSIONS : EndsWith(filename, ext)
        THEN Return([totals EXCEPT !.image_tokens = @ + IMAGE_TOKENS])
        ELSE IF EndsWith(filename, PDF_EXTENSION)
        THEN LET pages == count_pdf_pages(content)
             IN  Return([totals EXCEPT !.document_tokens = @ + pages * TOKENS_PER_PAGE])
        ELSE IF EndsWith(filename, TXT_EXTENSION)
        THEN LET text == Utf8Decode(content)
             IN  IF text.raised
                 THEN Return([totals EXCEPT !.text_tokens = @ + Len(content) \div 4])
                 ELSE Return([totals EXCEPT !.text_tokens =
                                 @ + estimate_text_tokens(PyStr(text.value)).value])
        ELSE Return(totals)

RECURSIVE ProcessFrom(_, _)
ProcessFrom(files, totals) ==
    IF files = <<>> THEN Return(totals)
    ELSE LET after == ProcessFile(Head(files), totals)
         IN  IF after.raised THEN after ELSE ProcessFrom(Tail(files), after.value)

process_files(files) == ProcessFrom(files, ZeroBreakdown)

----------------------------------------------------------------------------
(* POST /api/calc: calculate()                                             *)
(*                                                                         *)
(* A request is [is_json, json, form, files]:                              *)
(*   json   the parsed body, a Python value; [t |-> "malformed"] is a body *)
(*          that request.json cannot parse; a dict carries has_text_input  *)
(*          and text_input;                                                *)
(*   form   [has_text_input, text_input, other_fields]: the form fields;   *)
(*   files  the uploaded parts in order, each [field, filename, content,   *)
(*          readable]; readable is FALSE when read() of the part raises.   *)

\* request.files.getlist('files')
GetList(request) == SelectSeq(request.files, LAMBDA f : f.field = "files")

\* no filtering: every part of the field is processed
valid_files_unfiltered(files) == files

\* [f for f in files if f and f.filename]: bool(f) of a FileStorage is
\* bool(f.filename)
valid_files(files) == SelectSeq(files, LAMBDA f : f.filename # <<>>)

\* lines 121-129: the breakdown after the uploaded files
FileBreakdown(request) ==
    IF request.files # <<>> /\ GetList(request) # <<>>
    THEN LET valid == valid_files(GetList(request))
         IN  IF valid # <<>> THEN process_files(valid) ELSE Return(ZeroBreakdown)
    ELSE Return(ZeroBreakdown)

\* the text estimate added to the files' text tokens
AddTextTokens(breakdown, tokens) == [breakdown EXCEPT !.text_tokens = @ + tokens]

\* breakdown['text_tokens'] = estimate_text_tokens(text_input)
SetTextTokens(breakdown, tokens) == [breakdown EXCEPT !.text_tokens = tokens]

\* if text_input: breakdown['text_tokens'] = estimate_text_tokens(text_input)
ApplyTextInput(breakdown, text_input) ==
    IF Truthy(text_input)
    THEN LET tokens == estimate_text_tokens(text_input)
         IN  IF tokens.raised THEN tokens
             ELSE Return(SetTextTokens(breakdown, tokens.value))
    ELSE Return(breakdown)

\* lines 131-140: the breakdown after the text input
TextBreakdown(request, breakdown) ==
    IF request.is_json
    THEN LET data == request.json
         IN  IF data.t = "malformed"
             THEN Raise("BadRequest", "400 Bad Request: Failed to decode JSON object")
             ELSE IF data.t # "dict" THEN NoAttribute(data, "get")
             ELSE ApplyTextInput(breakdown,
                     IF data.has_text_input THEN data.text_input ELSE PyStr(<<>>))
    ELSE IF request.form.has_text_input \/ request.form.other_fields
    THEN ApplyTextInput(breakdown,
             IF request.form.has_text_input THEN PyStr(request.form.text_input)
             ELSE PyStr(<<>>))
    ELSE Return(breakdown)

\* lines 121-140: the final breakdown, or the exception raised on the way
Breakdown(request) ==
    LET after_files == FileBreakdown(request)
    IN  IF after_files.raised THEN after_files
        ELSE TextBreakdown(request, after_files.value)

TotalInputTokens(breakdown) ==
    breakdown.text_tokens + breakdown.image_tokens + breakdown.document_tokens

\* the validation test accepting a total of 0
NoInputNever(total_input_tokens) == total_input_tokens < 0

\* if total_input_tokens == 0
NoInput(total_input_tokens) == total_input_tokens = 0

ValidationFailure ==
    [status |-> 400,
     body |-> [success |-> FALSE, error |-> "Please enter a prompt or upload files"]]

\* the except branch
ServerError(e) ==
    [status |-> 500,
     body |-> [success |-> FALSE, error |-> "Server error: " \o e.msg]]

\* what the framework answers when an exception leaves a view function
UnhandledError(e) == [status |-> 500, body |-> [html |-> "Internal Server Error"]]

\* lines 142-174: the answer once the breakdown is known
Answer(breakdown) ==
    LET total_input_tokens == TotalInputTokens(breakdown)
    IN  IF NoInput(total_input_tokens) THEN ValidationFailure
        ELSE LET output_tokens == estimate_output_tokens(total_input_tokens)
                 cost == calculate_cost(total_input_tokens, output_tokens)
             IN  [status |-> 200,
                  body |-> [success |-> TRUE,
                            model_id |-> SONNET_4.model_id,
                            tokens |-> [input |-> total_input_tokens,
                                        output |-> output_tokens,
                                        breakdown |-> breakdown],
                            cost |-> cost,
                            pricing_per_1k |->
                                [input |-> SONNET_4.input_price_per_1k,
                                 output |-> SONNET_4.output_price_per_1k]]]

\* the handler without its try/except
calculate_uncaught(request) ==
    LET breakdown == Breakdown(request)
    IN  IF breakdown.raised THEN UnhandledError(breakdown) ELSE Answer(breakdown.value)

calculate(request) ==
    LET breakdown == Breakdown(request)
    IN  IF breakdown.raised THEN ServerError(breakdown) ELSE Answer(breakdown.value)

\* GET /health
health == [status |-> 200, body |-> [status |-> "healthy", model |-> SONNET_4.name]]

\* the handler counting the requests it served in the module global
GlobalsCountingRequests ==
    [SONNET_4 |-> SONNET_4, REQUESTS_PER_DAY |-> REQUESTS_PER_DAY + 1]

\* the module globals after calculate() ran: it assigns to neither
GlobalsAfterCalculate ==
    [SONNET_4 |-> SONNET_4, REQUESTS_PER_DAY |-> REQUESTS_PER_DAY]

----------------------------------------------------------------------------
(* The inputs the calls and requests are drawn from *)

SeqsUpTo(S, n) == UNION {[1..k -> S] : k \in 0..n}

\* space, 'a', no-break space (whitespace outside ASCII)
TextAlphabet == {32, 97, 160}
Texts == SeqsUpTo(TextAlphabet, MaxTextLen)
TextArguments == {PyStr(s) : s \in Texts} \cup {PyNone}

\* b'/Page', b'/Pa', b'abcd', e-acute in UTF-8, no-break space in UTF-8,
\* a byte that is no UTF-8
Chunks ==
    { PAGE_MARKER, <<47, 80, 97>>, <<97, 98, 99, 100>>, <<195, 169>>,
      <<194, 160>>, <<255>> }

RECURSIVE Contents(_)
Contents(n) ==
    IF n = 0 THEN {<<>>}
    ELSE LET shorter == Contents(n - 1)
         IN  shorter \cup {c \o k : c \in shorter, k \in Chunks}

\* '', 'a.PNG', 'photo.JPeG', 'e.jpg', 'my pic.gif', '../x.webp', 'b.pdf',
\* 'c.txt', 'e-acute.txt', 'notes.txt.', 'd.doc', 'archive.tar.gz',
\* 'README', '.png', '<two CJK characters>.png'
FileNames ==
    { <<>>,
      <<97, 46, 80, 78, 71>>,
      <<112, 104, 111, 116, 111, 46, 74, 80, 101, 71>>,
      <<101, 46, 106, 112, 103>>,
      <<109, 121, 32, 112, 105, 99, 46, 103, 105, 102>>,
      <<46, 46, 47, 120, 46, 119, 101, 98, 112>>,
      <<98, 46, 112, 100, 102>>,
      <<99, 46, 116, 120, 116>>,
      <<233, 46, 116, 120, 116>>,
      <<110, 111, 116, 101, 115, 46, 116, 120, 116, 46>>,
      <<100, 46, 100, 111, 99>>,
      <<97, 114, 99, 104, 105, 118, 101, 46, 116, 97, 114, 46, 103, 122>>,
      <<82, 69, 65, 68, 77, 69>>,
      <<46, 112, 110, 103>>,
      <<26085, 26412, 46, 112, 110, 103>> }

Upload(field, filename, content, readable) ==
    [field |-> field, filename |-> filename, content |-> content, readable |-> readable]

\* one file at a time, every name with every content
SingleFiles == {Upload("files", n, c, TRUE) : n \in FileNames, c \in Contents(MaxChunks)}

\* '', 'a.PNG', 'b.pdf', 'c.txt', 'd.doc'
RequestFileNames ==
    { <<>>, <<97, 46, 80, 78, 71>>, <<98, 46, 112, 100, 102>>,
      <<99, 46, 116, 120, 116>>, <<100, 46, 100, 111, 99>> }

\* b'', b'/Page/Page'
RequestContents == { <<>>, PAGE_MARKER \o PAGE_MARKER }

\* the parts of a multipart request: under the field 'files', under another
\* field, and parts whose read() raises
RequestUploads ==
    {Upload("files", n, c, TRUE) : n \in RequestFileNames, c \in RequestContents}
    \cup {Upload("attachment", <<97, 46, 80, 78, 71>>, <<>>, TRUE),
          Upload("files", <<97, 46, 80, 78, 71>>, <<>>, FALSE),
          Upload("files", <<>>, <<>>, FALSE)}

FilesArguments ==
    {<<f>> : f \in SingleFiles} \cup SeqsUpTo(RequestUploads, MaxFiles)

\* '', ' ', 'ab', ' abcdefgh ', and the prompt of the specification's example
RequestTexts ==
    { <<>>, <<32>>, <<97, 98>>, <<32, 97, 98, 99, 100, 101, 102, 103, 104, 32>>,
      <<72, 101, 108, 108, 111, 32, 119, 111, 114, 108, 100, 44, 32, 116, 104,
        105, 115, 32, 105, 115, 32, 97, 32, 116, 101, 115, 116, 32, 112, 114,
        111, 109, 112, 116, 32, 102, 111, 114, 32, 116, 104, 101, 32, 99, 97,
        108, 99, 117, 108, 97, 116, 111, 114>> }

\* the values a JSON body can give text_input
JsonValues ==
    {PyStr(s) : s \in RequestTexts}
    \cup {PyNone, PyInt(0), PyInt(5), PyBool(FALSE), PyBool(TRUE),
          PyList(0), PyList(2), PyDict(0), PyDict(1)}

JsonObject(n, has_text_input, text_input) ==
    [t |-> "dict", n |-> n, has_text_input |-> has_text_input, text_input |-> text_input]

JsonBodies ==
    {[t |-> "malformed"], PyNone, PyInt(7), PyBool(TRUE), PyStr(<<97, 98, 99, 100>>),
     PyList(0), PyList(2), JsonObject(0, FALSE, PyNone), JsonObject(1, FALSE, PyNone)}
    \cup {JsonObject(1, TRUE, v) : v \in JsonValues}

Form(has_text_input, text_input, other_fields) ==
    [has_text_input |-> has_text_input, text_input |-> text_input,
     other_fields |-> other_fields]

Forms ==
    {Form(FALSE, <<>>, o) : o \in BOOLEAN}
    \cup {Form(TRUE, s, o) : s \in RequestTexts, o \in BOOLEAN}

Request(is_json, json, form, files) ==
    [is_json |-> is_json, json |-> json, form |-> form, files |-> files]

JsonRequests == {Request(TRUE, b, Form(FALSE, <<>>, FALSE), <<>>) : b \in JsonBodies}

FormRequests ==
    {Request(FALSE, PyNone, f, u) : f \in Forms, u \in SeqsUpTo(RequestUploads, MaxFiles)}

Requests == JsonRequests \cup FormRequests

\* The traffic of the running server: every JSON request, and form requests
\* without text or with the text 'ab' that carry no part, an image, a text
\* file, a PDF, a part without filename, or a part whose read() raises.
ServedUploads ==
    { <<>>,
      <<Upload("files", <<97, 46, 80, 78, 71>>, <<>>, TRUE)>>,
      <<Upload("files", <<99, 46, 116, 120, 116>>, PAGE_MARKER \o PAGE_MARKER, TRUE)>>,
      <<Upload("files", <<98, 46, 112, 100, 102>>, PAGE_MARKER \o PAGE_MARKER, TRUE)>>,
      <<Upload("files", <<>>, <<>>, TRUE)>>,
      <<Upload("files", <<97, 46, 80, 78, 71>>, <<>>, FALSE)>> }

ServedRequests ==
    JsonRequests
    \cup {Request(FALSE, PyNone, f, u) :
            f \in {Form(FALSE, <<>>, FALSE), Form(TRUE, <<97, 98>>, FALSE)},
            u \in ServedUploads}

----------------------------------------------------------------------------
(* The state machine: a call of one of the functions on drawn arguments,   *)
(* or the running server answering requests one after the other.           *)

NotYet == [done |-> FALSE]
Done(v) == [done |-> TRUE, value |-> v]

Calls ==
    {[fn |-> "estimate_text_tokens", text |-> t] : t \in TextArguments}
    \cup {[fn |-> "estimate_output_tokens", input_tokens |-> n] : n \in 0..MaxInputTokens}
    \cup {[fn |-> "calculate_cost", input_tokens |-> i, output_tokens |-> o] :
            i \in 0..MaxCostIn, o \in 0..MaxCostOut}
    \cup {[fn |-> "process_files", files |-> f] : f \in FilesArguments}
    \cup {[fn |-> "calculate", request |-> r] : r \in Requests}
    \cup {[fn |-> "app.run"]}

Serving == call.fn \in {"app.run", "POST /api/calc", "GET /health"}

Init ==
    /\ SONNET_4 = [model_id |-> "us.anthropic.claude-sonnet-4-5-20250929-v1:0",
                   name |-> "Claude Sonnet 4.5",
                   input_price_per_1k |-> 30000,
                   output_price_per_1k |-> 150000]
    /\ REQUESTS_PER_DAY = 100
    /\ call \in Calls
    /\ ret = NotYet
    /\ first = NotYet

CallEstimateTextTokens ==
    /\ call.fn = "estimate_text_tokens" /\ ~ret.done
    /\ ret' = Done(estimate_text_tokens(call.text))
    /\ UNCHANGED <<SONNET_4, REQUESTS_PER_DAY, call, first>>

CallEstimateOutputTokens ==
    /\ call.fn = "estimate_output_tokens" /\ ~ret.done
    /\ ret' = Done(estimate_output_tokens(call.input_tokens))
    /\ UNCHANGED <<SONNET_4, REQUESTS_PER_DAY, call, first>>

CallCalculateCost ==
    /\ call.fn = "calculate_cost" /\ ~ret.done
    /\ ret' = Done(calculate_cost(call.input_tokens, call.output_tokens))
    /\ UNCHANGED <<SONNET_4, REQUESTS_PER_DAY, call, first>>

CallProcessFiles ==
    /\ call.fn = "process_files" /\ ~ret.done
    /\ ret' = Done(process_files(call.files))
    /\ UNCHANGED <<SONNET_4, REQUESTS_PER_DAY, call, first>>

CallCalculate ==
    /\ call.fn = "calculate" /\ ~ret.done
    /\ ret' = Done(calculate(call.request))
    /\ SONNET_4' = GlobalsAfterCalculate.SONNET_4
    /\ REQUESTS_PER_DAY' = GlobalsAfterCalculate.REQUESTS_PER_DAY
    /\ UNCHANGED <<call, first>>

PostCalc(request) ==
    /\ Serving
    /\ call' = [fn |-> "POST /api/calc", request |-> request]
    /\ ret' = Done(calculate(request))
    /\ first' = IF first.done THEN first
                ELSE [done |-> TRUE, request |-> request, response |-> calculate(request)]
    /\ SONNET_4' = GlobalsAfterCalculate.SONNET_4
    /\ REQUESTS_PER_DAY' = GlobalsAfterCalculate.REQUESTS_PER_DAY

GetHealth ==
    /\ Serving
    /\ call' = [fn |-> "GET /health"]
    /\ ret' = Done(health)
    /\ UNCHANGED <<SONNET_4, REQUESTS_PER_DAY, first>>

Next ==
    \/ CallEstimateTextTokens
    \/ CallEstimateOutputTokens
    \/ CallCalculateCost
    \/ CallProcessFiles
    \/ CallCalculate
    \/ \E request \in ServedRequests : PostCalc(request)
    \/ GetHealth

Spec == Init /\ [][Next]_vars

----------------------------------------------------------------------------
(* The properties checked *)

Returned(fn) == call.fn = fn /\ ret.done

\* a POST /api/calc was answered: ret.value is the response to call.request
Handled == call.fn \in {"calculate", "POST /api/calc"} /\ ret.done

InitialPricing ==
    [model_id |-> "us.anthropic.claude-sonnet-4-5-20250929-v1:0",
     name |-> "Claude Sonnet 4.5",
     input_price_per_1k |-> 30000,
     output_price_per_1k |-> 150000]

\* the text a request carries: '' when it carries none
RequestText(request) ==
    IF request.is_json
    THEN IF request.json.t = "dict" /\ request.json.has_text_input
         THEN request.json.text_input ELSE PyStr(<<>>)
    ELSE PyStr(request.form.text_input)

\* C1: a request handled without an exception is answered with the
\* validation failure (400, success false, the fixed message, no tokens and
\* no cost) exactly when the three token counts of its final breakdown sum
\* to 0, and otherwise with 200, success true and tokens.input equal to that
\* sum, which is then at least 1; empty text and no files give the 400.
C1_ValidationExactlyOnZeroTotal ==
    Handled /\ ~Breakdown(call.request).raised =>
        LET b == Breakdown(call.request).value
            sum == b.text_tokens + b.image_tokens + b.document_tokens
            r == ret.value
        IN  /\ sum >= 0
            /\ (sum = 0) <=> (r.status = 400)
            /\ sum = 0 =>
                 /\ r.body = [success |-> FALSE,
                              error |-> "Please enter a prompt or upload files"]
                 /\ DOMAIN r.body \cap {"tokens", "cost"} = {}
            /\ sum # 0 =>
                 /\ r.status = 200
                 /\ r.body.success = TRUE
                 /\ r.body.tokens.input = sum
                 /\ r.body.tokens.breakdown = b
                 /\ sum >= 1
            /\ (call.request.files = <<>> /\ RequestText(call.request) = PyStr(<<>>))
                 => r.status = 400

\* a request whose only upload is an empty text file is rejected
C1_Witness ==
    /\ Handled
    /\ ret.value.status = 400
    /\ Len(call.request.files) = 1
    /\ call.request.files[1].filename = <<99, 46, 116, 120, 116>>
    /\ call.request.files[1].readable

\* a part the handler reads (field 'files', a filename) whose read() raises
FailingRead(request) ==
    \E i \in 1..Len(request.files) :
        /\ request.files[i].field = "files"
        /\ request.files[i].filename # <<>>
        /\ ~request.files[i].readable

\* C2: an exception raised while handling POST /api/calc is answered with
\* 500, success false and the error 'Server error: ' followed by the
\* exception's message, never with 200 or 400; a JSON body that is no
\* object, a JSON text_input that is a non-empty value other than a string,
\* and a failing read of an upload raise such an exception.
C2_FailuresAnsweredWith500 ==
    Handled =>
        LET request == call.request
            e == Breakdown(request)
            r == ret.value
            IsServerError(msg) ==
                /\ r.status = 500
                /\ r.body = [success |-> FALSE, error |-> "Server error: " \o msg]
        IN  /\ e.raised => IsServerError(e.msg)
            /\ (request.is_json /\ request.json.t # "dict") =>
                   /\ r.status = 500 /\ r.body.success = FALSE
                   /\ request.json.t # "malformed" =>
                        IsServerError("'" \o request.json.t
                                      \o "' object has no attribute 'get'")
            /\ (request.is_json /\ request.json.t = "dict"
                  /\ request.json.has_text_input
                  /\ request.json.text_input.t # "str"
                  /\ Truthy(request.json.text_input)) =>
                   IsServerError("'" \o request.json.text_input.t
                                 \o "' object has no attribute 'strip'")
            /\ FailingRead(request) => r.status = 500 /\ r.body.success = FALSE
            /\ r.status = 500 => e.raised

\* a JSON request whose text_input is the number 5
C2_Witness ==
    /\ Handled
    /\ call.request.is_json
    /\ call.request.json.t = "dict"
    /\ call.request.json.has_text_input
    /\ call.request.json.text_input = PyInt(5)
    /\ ret.value.status = 500

\* C3: with a non-empty text_input and uploaded files, text_tokens of the
\* breakdown is estimate_text_tokens(text_input) alone, whatever the .txt
\* files gave, and image_tokens and document_tokens are those of the files;
\* with text_input absent or empty the breakdown is that of the files.
C3_TextInputReplacesFileText ==
    Handled /\ ~Breakdown(call.request).raised =>
        LET request == call.request
            of_files == FileBreakdown(request).value
            text == RequestText(request)
            r == ret.value
        IN  IF text.t = "str" /\ text.s # <<>>
            THEN /\ r.status = 200
                 /\ r.body.tokens.breakdown.text_tokens =
                        Max(1, Len(Strip(text.s)) \div 4)
                 /\ r.body.tokens.breakdown.image_tokens = of_files.image_tokens
                 /\ r.body.tokens.breakdown.document_tokens = of_files.document_tokens
            ELSE IF text = PyStr(<<>>)
            THEN IF r.status = 200
                 THEN r.body.tokens.breakdown = of_files
                 ELSE of_files = ZeroBreakdown
            ELSE TRUE

\* the text 'ab' (1 token) sent with a text file worth 2 tokens and an image
C3_Witness ==
    /\ Handled
    /\ ~call.request.is_json
    /\ call.request.form.text_input = <<97, 98>>
    /\ ~Breakdown(call.request).raised
    /\ FileBreakdown(call.request).value.text_tokens = 2
    /\ FileBreakdown(call.request).value.image_tokens = 1600
    /\ ret.value.status = 200
    /\ ret.value.body.tokens.breakdown.text_tokens = 1

\* a cost on the 10^-7 grid is a whole number m of millionths
IsMillionths(x, m) == x = 10 * m

\* what C4 states of the cost c of in input and out output tokens
C4_Exact(in, out, c) ==
    /\ IsMillionths(c.input, 3 * in)
    /\ IsMillionths(c.output, 15 * out)
    /\ c.total_per_request = c.input + c.output
    /\ c.weekly_estimate = c.total_per_request * 100 * 7
    /\ c.monthly_estimate = c.total_per_request * 100 * 30
    /\ c.weekly_estimate % 1000 = 0
    /\ c.monthly_estimate % 1000 = 0
    /\ \A k \in DOMAIN c : c[k] >= 0

\* C4: calculate_cost(in, out) is, in millionths, input = 3 in,
\* output = 15 out, total_per_request = input + output; weekly_estimate is
\* total_per_request * 100 * 7 and monthly_estimate total_per_request *
\* 100 * 30, both whole numbers of ten-thousandths; all are non-negative;
\* 13 and 50 tokens cost 0.000039, 0.00075 and 0.000789.  The same holds of
\* the cost in a success response, for its tokens.input and tokens.output.
C4_CostArithmetic ==
    /\ Returned("calculate_cost") =>
          /\ C4_Exact(call.input_tokens, call.output_tokens, ret.value)
          /\ (call.input_tokens = 13 /\ call.output_tokens = 50) =>
                /\ IsMillionths(ret.value.input, 39)
                /\ IsMillionths(ret.value.output, 750)
                /\ IsMillionths(ret.value.total_per_request, 789)
    /\ (Handled /\ ret.value.status = 200) =>
          C4_Exact(ret.value.body.tokens.input, ret.value.body.tokens.output,
                   ret.value.body.cost)

C4_Witness ==
    /\ Returned("calculate_cost")
    /\ call.input_tokens = 13
    /\ call.output_tokens = 50
    /\ ret.value.total_per_request = 7890

Clamp(x, lo, hi) == IF x < lo THEN lo ELSE IF x > hi THEN hi ELSE x

\* the integer nearest to 3 x / 5, which is never half way between two
NearestToThreeFifths(x) ==
    LET q == (3 * x) \div 5
        r == (3 * x) % 5
    IN  IF 2 * r > 5 THEN q + 1 ELSE q

\* C5 as stated: estimate_output_tokens(x) is 0.6 x rounded to the nearest
\* integer, clamped to [50, 4000].
C5_RoundedToNearest ==
    Returned("estimate_output_tokens") =>
        ret.value = Clamp(NearestToThreeFifths(call.input_tokens), 50, 4000)

\* C5 as amended: estimate_output_tokens(x) is 0.6 x with its fraction cut
\* off, the largest integer e with 5 e <= 3 x, clamped to [50, 4000].
C5_TruncatedThenClamped ==
    Returned("estimate_output_tokens") =>
        LET x == call.input_tokens
            e == (3 * x) \div 5
        IN  /\ 5 * e <= 3 * x /\ 3 * x < 5 * (e + 1)
            /\ ret.value = Clamp(e, 50, 4000)

\* 86 tokens: 51.6 is cut to 51, where rounding would give 52
C5_Witness ==
    /\ Returned("estimate_output_tokens")
    /\ call.input_tokens = 86
    /\ ret.value = 51

\* C6: estimate_output_tokens(x) lies in [50, 4000], is 50 for 0 and 4000
\* for 10000, and so does tokens.output of every success response.
C6_OutputWithinClamp ==
    /\ Returned("estimate_output_tokens") =>
          /\ ret.value \in 50..4000
          /\ call.input_tokens = 0 => ret.value = 50
          /\ call.input_tokens = 10000 => ret.value = 4000
    /\ (Handled /\ ret.value.status = 200) =>
          ret.value.body.tokens.output \in 50..4000

C6_Witness ==
    /\ Returned("estimate_output_tokens")
    /\ call.input_tokens = 10000
    /\ ret.value = 4000

\* the length of s without its leading and trailing whitespace
TrimmedLength(s) ==
    LET inked == {i \in 1..Len(s) : ~IsSpace(s[i])}
    IN  IF inked = {} THEN 0
        ELSE (CHOOSE i \in inked : \A j \in inked : j <= i)
             - (CHOOSE i \in inked : \A j \in inked : i <= j) + 1

\* C7: estimate_text_tokens is 0 for the empty and the absent text and
\* max(1, L div 4) for every other text, L its length without leading and
\* trailing whitespace: at least 1, also for a text of whitespace only.
C7_TextTokens ==
    Returned("estimate_text_tokens") =>
        /\ ~ret.value.raised
        /\ IF call.text = PyNone \/ call.text = PyStr(<<>>)
           THEN ret.value.value = 0
           ELSE LET L == TrimmedLength(call.text.s)
                IN  /\ ret.value.value = (IF L \div 4 >= 1 THEN L \div 4 ELSE 1)
                    /\ ret.value.value >= 1

\* whitespace on both sides of four letters: L = 4 gives 1 token
C7_Witness ==
    /\ Returned("estimate_text_tokens")
    /\ call.text = PyStr(<<32, 160, 97, 97, 97, 97, 32, 32>>)
    /\ ret.value.value = 1

\* the name process_files tests: sanitised by secure_filename, lower-cased
TestedName(file) == Lower(secure_filename(file.filename))

HasExtension(file, extensions) ==
    \E ext \in extensions : EndsWith(TestedName(file), ext)

\* the places where the byte pattern '/Page' starts; two occurrences cannot
\* overlap
PageMarkers(content) ==
    {i \in 1..(Len(content) - 4) : SubSeq(content, i, i + 4) = PAGE_MARKER}

\* what one file adds, as C8 states it
C8_Contribution(file) ==
    IF HasExtension(file, IMAGE_EXTENSIONS)
    THEN [text_tokens |-> 0, image_tokens |-> 1600, document_tokens |-> 0]
    ELSE IF HasExtension(file, {PDF_EXTENSION})
    THEN [text_tokens |-> 0, image_tokens |-> 0,
          document_tokens |->
              (IF PageMarkers(file.content) = {} THEN 1
               ELSE Cardinality(PageMarkers(file.content))) * 500]
    ELSE IF HasExtension(file, {TXT_EXTENSION})
    THEN [text_tokens |->
              IF Utf8Decode(file.content).raised THEN Len(file.content) \div 4
              ELSE estimate_text_tokens(PyStr(Utf8Decode(file.content).value)).value,
          image_tokens |-> 0, document_tokens |-> 0]
    ELSE [text_tokens |-> 0, image_tokens |-> 0, document_tokens |-> 0]

RECURSIVE C8_Sum(_, _)
C8_Sum(files, category) ==
    IF files = <<>> THEN 0
    ELSE C8_Contribution(Head(files))[category] + C8_Sum(Tail(files), category)

NoFilename(file) == file.filename = <<>>
NoFilenameOrNoContent(file) == file.filename = <<>> \/ file.content = <<>>

\* the request without its parts that have no filename
WithoutNameless(request) ==
    [request EXCEPT !.files = SelectSeq(request.files, LAMBDA f : ~NoFilename(f))]

\* the request without its parts that have no filename or no content
WithoutNamelessOrEmpty(request) ==
    [request EXCEPT !.files =
        SelectSeq(request.files, LAMBDA f : ~NoFilenameOrNoContent(f))]

C10_ResponsesIndependentOfHistory ==
    /\ SONNET_4 = InitialPricing
    /\ REQUESTS_PER_DAY = 100
    /\ (call.fn = "POST /api/calc" /\ call.request = first.request)
          => ret.value = first.response
    /\ Returned("GET /health") =>
          ret.value = [status |-> 200,
                       body |-> [status |-> "healthy", model |-> "Claude Sonnet 4.5"]]

\* a health check after a first request that failed with 500
C10_Witness ==
    /\ Returned("GET /health")
    /\ first.done
    /\ first.response.status = 500

====
